---- MODULE Spec2Model ----
(* Rare-variant burden test of resources/BroadEWorkshop_RVanalysis.ipynb.  *)
(* The notebook is a sequence of cells; every cell rebinds one name (mt,   *)
(* gene_ht, keyed_gene_table, burden_mt, pca_scores, burden_results) to a  *)
(* new immutable Hail table.  Each cell is one action; the library calls   *)
(* are operators that compute what the call computes.                      *)
EXTENDS Integers, Sequences, FiniteSets, TLC

(***************************************************************************)
(* Bounds of the model.                                                    *)
(***************************************************************************)
NBackground == 99
MaxPos == 3
MaxGenes == 2
MaxP == 2
MaxAnnotateRuns == 2

(***************************************************************************)
(* The cohort.  Columns of the matrix table: two samples whose calls are   *)
(* free, and a block of NBackground further samples that share one call at *)
(* every variant (homozygous reference, or missing).                       *)
(***************************************************************************)
Samples == {"s1", "s2"}
Background == "bg"
Cols == Samples \cup {Background}
Weight(c) == IF c = Background THEN NBackground ELSE 1

\* A call is the pair of its alleles, or the empty tuple when it is missing.
MissingCall == << >>
HomRef == <<0, 0>>
Het == <<0, 1>>
HomVar == <<1, 1>>
Calls == {MissingCall, HomRef, Het, HomVar}
BackgroundCalls == {MissingCall, HomRef}

\* Rows of the matrix table: biallelic variants, keyed by locus.
Contigs == {"1", "2"}
Variants == {1, 2}
locus(v) == [contig |-> "1", position |-> v]

\* Missing value of a string field; NaN of a float field, which sorts after
\* every number.
NA == "NA"
GeneNames == {"GENE_A", "GENE_B"}
Pvals == 1..MaxP
NaN == MaxP + 1

\* pheno.is_female of every column.
is_female(c) == c = "s1"

VARIABLES
    GT,               \* entry field GT of resources/post_qc.mt
    gene_file,        \* rows of resources/ensembl_gene_annotations.txt
    stage,            \* the last cell of the main sequence that has run
    mt,               \* the matrix table bound to mt
    gene_ht,          \* the table bound to gene_ht
    keyed_gene_table, \* the table bound to keyed_gene_table
    annotate_runs,    \* how often the annotate_rows cell has run
    burden_mt,        \* the matrix table bound to burden_mt
    pca_scores,       \* the table bound to pca_scores
    burden_results,   \* the table bound to burden_results
    shown             \* the rows printed by order_by(...).show()

vars == <<GT, gene_file, stage, mt, gene_ht, keyed_gene_table, annotate_runs,
          burden_mt, pca_scores, burden_results, shown>>

(***************************************************************************)
(* Small helpers.                                                          *)
(***************************************************************************)
RECURSIVE SumOver(_, _)
SumOver(S, f) ==
    IF S = {} THEN 0
    ELSE LET x == CHOOSE y \in S : TRUE
         IN f[x] + SumOver(S \ {x}, f)

(***************************************************************************)
(* hl.agg.call_stats(mt.GT, mt.alleles) over the columns of one row.       *)
(***************************************************************************)
n_alt_alleles(call) == Cardinality({i \in 1..Len(call) : call[i] # 0})

call_stats(v) ==
    LET called == {c \in Cols : GT[v][c] # MissingCall}
        an == SumOver(called, [c \in called |-> 2 * Weight(c)])
        ac1 == SumOver(called, [c \in called |-> n_alt_alleles(GT[v][c]) * Weight(c)])
    IN [AC |-> <<an - ac1, ac1>>, AN |-> an]

\* The literal 0.01 of the filter, as a fraction.
ThresholdNum == 1
ThresholdDen == 100

\* The filter with <= for <.
AFBelowOrEqualThreshold(v) ==
    LET cs == call_stats(v)
    IN IF cs.AN = 0 THEN NA
       ELSE IF cs.AC[2] * ThresholdDen <= ThresholdNum * cs.AN THEN "true"
       ELSE "false"

\* call_stats(...).AF[1] < 0.01: AF is missing when AN is 0, and so is the
\* comparison; otherwise AC[1]/AN < 1/100.
AFBelowThreshold(v) ==
    LET cs == call_stats(v)
    IN IF cs.AN = 0 THEN NA
       ELSE IF cs.AC[2] * ThresholdDen < ThresholdNum * cs.AN THEN "true"
       ELSE "false"

\* A filter that keeps a row whose predicate is missing.
KeepRowUnlessFalse(v) == AFBelowThreshold(v) # "false"

\* filter_rows keeps the rows whose predicate is true; a missing predicate
\* removes the row.
KeepRow(v) == AFBelowThreshold(v) = "true"

(***************************************************************************)
(* hl.import_table, transmute(interval = hl.locus_interval(...)), key_by.  *)
(***************************************************************************)
\* hl.locus_interval(contig, start, end) with its default bounds:
\* includes_start=True, includes_end=False.
locus_interval(contig, start, end) ==
    [contig |-> contig, start |-> start, end |-> end,
     includes_start |-> TRUE, includes_end |-> FALSE]

\* Containment that compares the positions only.
ContainsOnAnyContig(interval, l) ==
    /\ \/ interval.start < l.position
       \/ interval.start = l.position /\ interval.includes_start
    /\ \/ l.position < interval.end
       \/ l.position = interval.end /\ interval.includes_end

\* An interval contains a locus of its contig between its bounds.
Contains(interval, l) ==
    /\ l.contig = interval.contig
    /\ \/ interval.start < l.position
       \/ interval.start = l.position /\ interval.includes_start
    /\ \/ l.position < interval.end
       \/ l.position = interval.end /\ interval.includes_end

transmute(ht) ==
    [i \in 1..Len(ht) |->
        [interval |-> locus_interval(ht[i].chromosome, ht[i].start, ht[i].end),
         gene_name |-> ht[i].gene_name]]

\* Order of the interval keys: contig, then start, then end.
ContigIndex(c) == IF c = "1" THEN 1 ELSE 2

IntervalLess(a, b) ==
    \/ ContigIndex(a.contig) < ContigIndex(b.contig)
    \/ /\ a.contig = b.contig
       /\ \/ a.start < b.start
          \/ a.start = b.start /\ a.end < b.end

\* key_by sorts the rows by the new key.
RECURSIVE Insert(_, _)
Insert(sorted, row) ==
    IF sorted = << >> THEN <<row>>
    ELSE IF IntervalLess(row.interval, Head(sorted).interval)
         THEN <<row>> \o sorted
         ELSE <<Head(sorted)>> \o Insert(Tail(sorted), row)

RECURSIVE key_by(_)
key_by(ht) ==
    IF ht = << >> THEN << >>
    ELSE Insert(key_by(SubSeq(ht, 1, Len(ht) - 1)), ht[Len(ht)])

(***************************************************************************)
(* keyed_gene_table[mt.locus].gene_name: the join of a locus with the      *)
(* interval-keyed table.  No matching row gives a missing value; with      *)
(* several matching rows the join returns the first of them in the order   *)
(* of the key, and rows with equal keys are in no specified order.         *)
(***************************************************************************)
Matches(table, l) == {i \in 1..Len(table) : Contains(table[i].interval, l)}

FirstMatches(table, l) ==
    {i \in Matches(table, l) :
        \A j \in Matches(table, l) : ~IntervalLess(table[j].interval, table[i].interval)}

JoinGeneNames(table, l) ==
    IF Matches(table, l) = {} THEN {NA}
    ELSE {table[i].gene_name : i \in FirstMatches(table, l)}

(***************************************************************************)
(* group_rows_by('gene').aggregate(n_variants = count_where(...)) and the  *)
(* filter_rows on the aggregated table.                                    *)
(***************************************************************************)
\* mt.GT.n_alt_alleles() > 0 is true; it is missing for a missing call, and
\* count_where counts the true values only.
IsCarrier(call) == call # MissingCall /\ n_alt_alleles(call) > 0

\* Rows with a missing key form one group, as the rows of any other key do.
GroupKeys(m) == {m.gene[v] : v \in m.rows}

\* An aggregation that sums the alternate alleles of the calls.
aggregate_alt_alleles(m) ==
    [k \in GroupKeys(m) |->
        [c \in Cols |->
            SumOver({v \in m.rows : m.gene[v] = k},
                    [v \in m.rows |-> n_alt_alleles(GT[v][c])])]]

aggregate(m) ==
    [k \in GroupKeys(m) |->
        [c \in Cols |->
            Cardinality({v \in m.rows : m.gene[v] = k /\ IsCarrier(GT[v][c])})]]

\* hl.agg.sum(burden_mt.n_variants) over the columns of one row.
RowSum(row) == SumOver(Cols, [c \in Cols |-> row[c] * Weight(c)])

\* A row filter that keeps the rows without a carrier.
BurdenKeepAll(row) == RowSum(row) >= 0

BurdenKeep(row) == RowSum(row) > 0

filter_burden(b) ==
    LET kept == {k \in DOMAIN b : BurdenKeep(b[k])}
    IN [k \in kept |-> b[k]]

(***************************************************************************)
(* hl.hwe_normalized_pca(mt.GT): rows that are all homozygous reference or *)
(* all homozygous variant are removed, and the call fails when none is     *)
(* left.  The scores are a function of the remaining genotype matrix,      *)
(* which stands for them here.                                             *)
(***************************************************************************)
Polymorphic(v) ==
    LET cs == call_stats(v)
    IN cs.AC[2] > 0 /\ cs.AC[2] < cs.AN

hwe_normalized_pca(rows) ==
    LET used == {v \in rows : Polymorphic(v)}
    IN IF used = {} THEN [status |-> "error", input |-> << >>]
       ELSE [status |-> "ok", input |-> [v \in used |-> GT[v]]]

(***************************************************************************)
(* hl.linear_regression_rows(y, x = n_variants, covariates = [1.0,         *)
(* is_female, PC1..PC3]): one row per row of burden_mt.                    *)
(***************************************************************************)
\* x lies in the span of the intercept and is_female: it is constant on
\* the female columns and constant on the male columns.
Degenerate(x) ==
    \A c, d \in Cols : is_female(c) = is_female(d) => x[c] = x[d]

\* A regression that takes the rank of the design for granted.
RowPvalsUnchecked(x) == Pvals

\* The p-values a row can get: NaN when the design is rank-deficient
\* (division by a zero residual variance), a number otherwise.
RowPvals(x) == IF Degenerate(x) THEN {NaN} ELSE Pvals

(***************************************************************************)
(* burden_results.order_by(burden_results.p_value): the rows in ascending  *)
(* order of the sort field.  The order of rows with equal sort fields is   *)
(* not specified.                                                          *)
(***************************************************************************)
\* A descending sort.
OrderedAfter(p, q) == p >= q

OrderedBefore(p, q) == p <= q

IsOrdered(rows) ==
    \A i \in 1..(Len(rows) - 1) : OrderedBefore(rows[i].p_value, rows[i + 1].p_value)

Orderings(results) ==
    LET keys == DOMAIN results
        n == Cardinality(keys)
    IN {s \in [1..n -> [gene : keys, p_value : Pvals \cup {NaN}]] :
            /\ \A k \in keys : \E i \in 1..n : s[i] = [gene |-> k, p_value |-> results[k]]
            /\ IsOrdered(s)}

(***************************************************************************)
(* The inputs.                                                             *)
(***************************************************************************)
GenotypeInputs ==
    {g \in [Variants -> [Cols -> Calls]] :
        \A v \in Variants : g[v][Background] \in BackgroundCalls}

GeneRows ==
    {[chromosome |-> c, start |-> a, end |-> b, gene_name |-> n] :
        c \in Contigs, a \in 1..MaxPos, b \in 1..MaxPos, n \in GeneNames}

\* hl.locus_interval rejects an interval whose start does not precede its end.
ValidRows == {r \in GeneRows : r.start < r.end}

GeneFileInputs == UNION {[1..n -> ValidRows] : n \in 0..MaxGenes}

\* One rare heterozygous carrier at every variant.
CarrierGenotypes ==
    [v \in Variants |->
        [c \in Cols |-> IF (v = 1 /\ c = "s1") \/ (v = 2 /\ c = "s2") THEN Het ELSE HomRef]]

\* Gene files in which the two variants share a gene, have a gene each, or
\* the second has none.
GeneRow(a, b, n) == [chromosome |-> "1", start |-> a, end |-> b, gene_name |-> n]

ReferenceFiles ==
    { <<GeneRow(1, 3, "GENE_A")>>,
      <<GeneRow(1, 2, "GENE_A"), GeneRow(2, 3, "GENE_B")>>,
      <<GeneRow(1, 2, "GENE_A")>> }

NoTable == << >>
NoMatrix == << >>
NotRun == [status |-> "none", input |-> << >>]

\* mt = hl.read_matrix_table('resources/post_qc.mt')
read_matrix_table == [rows |-> Variants, has_gene |-> FALSE, gene |-> << >>]

Init ==
    /\ \/ GT \in GenotypeInputs /\ gene_file \in ReferenceFiles
       \/ GT = CarrierGenotypes /\ gene_file \in GeneFileInputs
    /\ stage = "read"
    /\ mt = read_matrix_table
    /\ gene_ht = NoTable
    /\ keyed_gene_table = NoTable
    /\ annotate_runs = 0
    /\ burden_mt = NoMatrix
    /\ pca_scores = NotRun
    /\ burden_results = NoMatrix
    /\ shown = << >>

(***************************************************************************)
(* The cells.                                                              *)
(***************************************************************************)
\* mt = mt.filter_rows(hl.agg.call_stats(mt.GT, mt.alleles).AF[1] < 0.01)
FilterRows ==
    /\ stage = "read"
    /\ mt' = [mt EXCEPT !.rows = {v \in mt.rows : KeepRow(v)}]
    /\ stage' = "filtered"
    /\ UNCHANGED <<GT, gene_file, gene_ht, keyed_gene_table, annotate_runs,
                   burden_mt, pca_scores, burden_results, shown>>

\* gene_ht = hl.import_table('resources/ensembl_gene_annotations.txt', impute=True)
ImportTable ==
    /\ stage = "filtered"
    /\ gene_ht' = gene_file
    /\ stage' = "imported"
    /\ UNCHANGED <<GT, gene_file, mt, keyed_gene_table, annotate_runs,
                   burden_mt, pca_scores, burden_results, shown>>

\* gene_ht = gene_ht.transmute(interval = hl.locus_interval(...))
Transmute ==
    /\ stage = "imported"
    /\ gene_ht' = transmute(gene_ht)
    /\ stage' = "transmuted"
    /\ UNCHANGED <<GT, gene_file, mt, keyed_gene_table, annotate_runs,
                   burden_mt, pca_scores, burden_results, shown>>

\* keyed_gene_table = gene_ht.key_by('interval')
KeyBy ==
    /\ stage = "transmuted"
    /\ keyed_gene_table' = key_by(gene_ht)
    /\ stage' = "keyed"
    /\ UNCHANGED <<GT, gene_file, mt, gene_ht, annotate_runs,
                   burden_mt, pca_scores, burden_results, shown>>

\* mt = mt.annotate_rows(gene = keyed_gene_table[mt.locus].gene_name); the
\* cell can be run again on the annotated table.
CanAnnotate ==
    /\ stage \in {"keyed", "annotated"}
    /\ annotate_runs < MaxAnnotateRuns

AnnotateRows ==
    /\ CanAnnotate
    /\ \E g \in [mt.rows -> GeneNames \cup {NA}] :
          /\ \A v \in mt.rows : g[v] \in JoinGeneNames(keyed_gene_table, locus(v))
          /\ mt' = [mt EXCEPT !.has_gene = TRUE, !.gene = g]
    /\ annotate_runs' = annotate_runs + 1
    /\ stage' = "annotated"
    /\ UNCHANGED <<GT, gene_file, gene_ht, keyed_gene_table,
                   burden_mt, pca_scores, burden_results, shown>>

\* burden_mt = mt.group_rows_by('gene').aggregate(...), then
\* burden_mt = burden_mt.filter_rows(hl.agg.sum(burden_mt.n_variants) > 0).
\* group_rows_by('gene') needs the row field gene.
CanAggregate == stage = "annotated" /\ mt.has_gene

Aggregate ==
    /\ CanAggregate
    /\ burden_mt' = filter_burden(aggregate(mt))
    /\ stage' = "aggregated"
    /\ UNCHANGED <<GT, gene_file, mt, gene_ht, keyed_gene_table, annotate_runs,
                   pca_scores, burden_results, shown>>

\* pca_eigenvalues, pca_scores, pca_loadings = hl.hwe_normalized_pca(mt.GT, ...):
\* it reads the entries of mt only, so it can be evaluated at any point
\* between the filter and the regression.
\* A PCA that may be evaluated on the unfiltered table.
CanPcaBeforeFilter ==
    /\ stage \in {"read", "filtered", "imported", "transmuted", "keyed", "annotated",
                  "aggregated"}
    /\ pca_scores = NotRun

CanPca ==
    /\ stage \in {"filtered", "imported", "transmuted", "keyed", "annotated", "aggregated"}
    /\ pca_scores = NotRun

Pca ==
    /\ CanPca
    /\ pca_scores' = hwe_normalized_pca(mt.rows)
    /\ UNCHANGED <<GT, gene_file, stage, mt, gene_ht, keyed_gene_table, annotate_runs,
                   burden_mt, burden_results, shown>>

\* burden_mt = burden_mt.annotate_cols(pca = pca_scores[burden_mt.s]);
\* burden_results = hl.linear_regression_rows(...)
Regress ==
    /\ stage = "aggregated"
    /\ pca_scores.status = "ok"
    /\ \E r \in [DOMAIN burden_mt -> Pvals \cup {NaN}] :
          /\ \A k \in DOMAIN burden_mt : r[k] \in RowPvals(burden_mt[k])
          /\ burden_results' = r
    /\ stage' = "regressed"
    /\ UNCHANGED <<GT, gene_file, mt, gene_ht, keyed_gene_table, annotate_runs,
                   burden_mt, pca_scores, shown>>

\* burden_results.order_by(burden_results.p_value).show()
Show ==
    /\ stage = "regressed"
    /\ shown' \in Orderings(burden_results)
    /\ stage' = "shown"
    /\ UNCHANGED <<GT, gene_file, mt, gene_ht, keyed_gene_table, annotate_runs,
                   burden_mt, pca_scores, burden_results>>

Next ==
    \/ FilterRows
    \/ ImportTable
    \/ Transmute
    \/ KeyBy
    \/ AnnotateRows
    \/ Aggregate
    \/ Pca
    \/ Regress
    \/ Show

Spec == Init /\ [][Next]_vars

(***************************************************************************)
(* Quantities the properties are stated in.                                *)
(***************************************************************************)
\* Alternate alleles and observed alleles of a variant over the cohort.
AltAlleles(v) ==
    SumOver(Cols, [c \in Cols |->
        IF GT[v][c] = Het THEN Weight(c)
        ELSE IF GT[v][c] = HomVar THEN 2 * Weight(c) ELSE 0])

ObservedAlleles(v) ==
    SumOver(Cols, [c \in Cols |-> IF GT[v][c] = MissingCall THEN 0 ELSE 2 * Weight(c)])

Filtered == stage # "read"
Annotated == stage \in {"annotated", "aggregated", "regressed", "shown"}
Aggregated == stage \in {"aggregated", "regressed", "shown"}
Regressed == stage \in {"regressed", "shown"}

\* Variants counted in a row of burden_mt.
CountedVariants == {v \in mt.rows : mt.gene[v] \in DOMAIN burden_mt}

(***************************************************************************)
(* C1: after the filter every retained variant has an allele frequency     *)
(* (alternate alleles / observed alleles) strictly below 0.01, and the     *)
(* later stages (the annotation, the burden matrix, the PCA input) hold    *)
(* such variants only.                                                     *)
(***************************************************************************)
RareVariant(v) == ObservedAlleles(v) > 0 /\ 100 * AltAlleles(v) < ObservedAlleles(v)

C1_RetainedBelowThreshold ==
    /\ Filtered => \A v \in mt.rows : RareVariant(v)
    /\ Annotated => \A v \in DOMAIN mt.gene : RareVariant(v)
    /\ pca_scores.status = "ok" /\ Filtered =>
          \A v \in DOMAIN pca_scores.input : RareVariant(v)
    /\ Aggregated =>
          \A k \in DOMAIN burden_mt : \A c \in Cols :
              burden_mt[k][c] <= Cardinality({v \in Variants : RareVariant(v)})

\* The run is over, a variant with carriers was retained and a variant whose
\* frequency is exactly 0.01 was dropped.
C1_Witness ==
    /\ stage = "shown"
    /\ \E v \in mt.rows : AltAlleles(v) > 0
    /\ \E v \in Variants \ mt.rows :
          ObservedAlleles(v) > 0 /\ 100 * AltAlleles(v) = ObservedAlleles(v)

(***************************************************************************)
(* C2: a variant gets a gene exactly when some interval of the gene file   *)
(* has its chromosome and start <= position <= end (closed-closed).        *)
(***************************************************************************)
InClosedInterval(row, l) ==
    row.chromosome = l.contig /\ row.start <= l.position /\ l.position <= row.end

C2_ClosedClosed ==
    Annotated =>
        \A v \in mt.rows :
            mt.gene[v] # NA <=> \E i \in 1..Len(gene_file) : InClosedInterval(gene_file[i], locus(v))

(***************************************************************************)
(* C3: a variant that overlaps no interval is left out of the aggregation: *)
(* burden_mt has no row for the missing gene, and neither have the         *)
(* regression results.                                                     *)
(***************************************************************************)
C3_NoNullGene ==
    /\ Aggregated => NA \notin DOMAIN burden_mt
    /\ Regressed => NA \notin DOMAIN burden_results

(***************************************************************************)
(* C4: n_variants of a (gene, sample) pair is the number of retained       *)
(* variants of that gene at which the sample's call is heterozygous or     *)
(* homozygous variant; a missing and a homozygous-reference call add 0, a  *)
(* homozygous-variant call adds 1.                                         *)
(***************************************************************************)
C4_CarrierCount ==
    Aggregated =>
        \A k \in DOMAIN burden_mt : \A c \in Cols :
            burden_mt[k][c] =
                Cardinality({v \in mt.rows : mt.gene[v] = k /\ GT[v][c] \in {Het, HomVar}})

\* A counted gene in which one sample has a homozygous-variant call at one
\* variant and a missing call at another.
C4_Witness ==
    /\ Aggregated
    /\ \E v, w \in CountedVariants : \E c \in Samples :
          /\ mt.gene[v] = mt.gene[w]
          /\ GT[v][c] = HomVar
          /\ GT[w][c] = MissingCall
          /\ burden_mt[mt.gene[v]][c] = 1

(***************************************************************************)
(* C5: every gene of the final burden_mt has a carrier in some sample, and *)
(* only those genes reach the regression and the printed ranking.          *)
(***************************************************************************)
C5_NoEmptyGene ==
    /\ Aggregated => \A k \in DOMAIN burden_mt : \E c \in Cols : burden_mt[k][c] > 0
    /\ Regressed => DOMAIN burden_results \subseteq DOMAIN burden_mt
    /\ stage = "shown" => \A i \in 1..Len(shown) : shown[i].gene \in DOMAIN burden_mt

\* The run is over; one gene had no carrier and was dropped, another stayed.
C5_Witness ==
    /\ stage = "shown"
    /\ DOMAIN burden_mt # {}
    /\ \E v \in mt.rows : mt.gene[v] \notin DOMAIN burden_mt

(***************************************************************************)
(* C6: the printed rows are in ascending order of p-value, and rows with   *)
(* equal p-values are in lexicographic order of gene name, so that the     *)
(* results fix the printed order.  Stated for the rows that have a gene    *)
(* name and a numeric p-value.                                             *)
(***************************************************************************)
NameRank(g) == IF g = "GENE_A" THEN 1 ELSE 2

C6_AscendingTiesByName ==
    stage = "shown" =>
        \A i, j \in 1..Len(shown) :
            /\ i < j
            /\ {shown[i].gene, shown[j].gene} \subseteq GeneNames
            /\ {shown[i].p_value, shown[j].p_value} \subseteq Pvals
            => \/ shown[i].p_value < shown[j].p_value
               \/ /\ shown[i].p_value = shown[j].p_value
                  /\ NameRank(shown[i].gene) < NameRank(shown[j].gene)

\* C6 as amended: the printed rows are the result rows, each once, in
\* ascending order of p-value (NaN after every number); nothing is said of
\* the order of rows with equal p-values.
C6_Ascending ==
    stage = "shown" =>
        /\ Len(shown) = Cardinality(DOMAIN burden_results)
        /\ \A k \in DOMAIN burden_results :
              \E i \in 1..Len(shown) : shown[i] = [gene |-> k, p_value |-> burden_results[k]]
        /\ \A i \in 1..(Len(shown) - 1) : shown[i].p_value <= shown[i + 1].p_value

\* Two rows with different numeric p-values have been printed.
C6_Witness ==
    /\ stage = "shown"
    /\ Len(shown) >= 2
    /\ shown[1].p_value < shown[2].p_value
    /\ shown[2].p_value # NaN

(***************************************************************************)
(* C7: a gene whose design matrix is rank-deficient gets a NaN result and  *)
(* nothing else happens: the regression and the ranking still run, and     *)
(* every gene of burden_mt has exactly one result row and one printed row. *)
(***************************************************************************)
\* n_variants is a combination of the intercept and the is_female column.
RankDeficient(k) ==
    \E a \in 0..Cardinality(Variants) : \E b \in 0..Cardinality(Variants) :
        \A c \in Cols : burden_mt[k][c] = IF is_female(c) THEN a ELSE b

C8_UndefinedFrequencyRetained ==
    Filtered => \A v \in Variants : ObservedAlleles(v) = 0 => v \in mt.rows

\* C8 as amended: a variant with no observed allele has a missing allele
\* frequency and is dropped by the filter.
C8_UndefinedFrequencyDropped ==
    Filtered => \A v \in Variants : ObservedAlleles(v) = 0 => v \notin mt.rows

\* The filter has run on a table with such a variant and with a variant it
\* keeps.
C8_Witness ==
    /\ stage = "filtered"
    /\ \E v \in Variants : ObservedAlleles(v) = 0
    /\ mt.rows # {}

(***************************************************************************)
(* C9: whenever the PCA is evaluated between the filter and the            *)
(* regression, its scores are those of the filtered genotypes, the burden  *)
(* matrix is that of the annotated table, the results cover its genes, and *)
(* the aggregation reads a table in which every row has its gene.          *)
(***************************************************************************)
RetainedVariants == {v \in Variants : RareVariant(v)}

InInterval(row, l) ==
    row.chromosome = l.contig /\ row.start <= l.position /\ l.position < row.end

Containing(l) == {i \in 1..Len(gene_file) : InInterval(gene_file[i], l)}

FirstMatch(l) ==
    IF Containing(l) = {} THEN NA
    ELSE gene_file[CHOOSE i \in Containing(l) : \A j \in Containing(l) : i <= j].gene_name

SameInterval(r, q) ==
    r.chromosome = q.chromosome /\ r.start = q.start /\ r.end = q.end

DistinctIntervals(l) ==
    \A i, j \in Containing(l) : SameInterval(gene_file[i], gene_file[j]) => i = j

====
